---- MODULE Spec2Model ----
(***************************************************************************)
(* Model of linkerd/metrics/src/serve.rs: the Serve<M> service that        *)
(* answers GET /metrics with the rendered metrics, gzip-encoded when the   *)
(* request's Accept-Encoding headers ask for it.                           *)
(*                                                                         *)
(* Byte strings (URIs, header values, bodies) are sequences of byte        *)
(* values 0..255; header names, methods and error messages are strings.    *)
(***************************************************************************)
EXTENDS Integers, Sequences, FiniteSets, TLC

VARIABLES
    metrics,    \* state of the metrics source held by Serve.metrics
    req,        \* the request handed to call
    calls,      \* number of calls made so far
    snap,       \* state of the metrics source when the last call ran
    result,     \* the future returned by the last call
    log,        \* the tracing records emitted by the last call
    renders,    \* how many times the last call rendered the metrics source
    repeat,     \* the last call followed a call on the same metrics state
    threads     \* per-thread state of calls running on clones of the service

vars == <<metrics, req, calls, snap, result, log, renders, repeat, threads>>

\* ------------------------------------------------------------------ bounds
MaxHeaders == 2     \* header entries per request
MaxCount == 1       \* the metrics counter takes the values 0..MaxCount
MaxCalls == 2       \* calls made on one request in a behaviour
NumThreads == 2     \* threads calling clones of the service concurrently

\* ------------------------------------------------------------ byte strings
B_metrics == <<47, 109, 101, 116, 114, 105, 99, 115>>          \* "/metrics"
B_metrics_query == B_metrics \o <<63, 120, 61, 49>>            \* "/metrics?x=1"
B_metrics_slash == B_metrics \o <<47>>                         \* "/metrics/"
B_Metrics_case == <<47, 77, 101, 116, 114, 105, 99, 115>>      \* "/Metrics"
B_healthz == <<47, 104, 101, 97, 108, 116, 104, 122>>          \* "/healthz"
B_slash == <<47>>                                              \* "/"
B_gzip == <<103, 122, 105, 112>>                               \* "gzip"
B_gzip_deflate == B_gzip \o <<44, 32, 100, 101, 102, 108, 97, 116, 101>>  \* "gzip, deflate"
B_gzip_q0 == B_gzip \o <<59, 113, 61, 48>>                     \* "gzip;q=0"
B_identity == <<105, 100, 101, 110, 116, 105, 116, 121>>       \* "identity"
B_invalid_gzip == <<255>> \o B_gzip                            \* b"\xFFgzip", not valid text
B_text_plain == <<116, 101, 120, 116, 47, 112, 108, 97, 105, 110>>  \* "text/plain"
B_foo_total == <<102, 111, 111, 95, 116, 111, 116, 97, 108, 32>>    \* "foo_total "

\* ----------------------------------------------------------------- Result
Ok(v) == [ok |-> TRUE, val |-> v]
Err(e) == [ok |-> FALSE, err |-> e]

\* ----------------------------------------------------- the metrics source
\* The text `self.metrics.as_display()` renders for a source whose counter is n.
Text(n) == B_foo_total \o <<48 + n, 10>>

MetricsStates == [count : 0..MaxCount, fails : BOOLEAN]

\* write!(&mut writer, "{}", self.metrics.as_display()): the bytes handed to
\* the writer and the io::Result of the write. A Display impl that fails has
\* written part of its text before it returns fmt::Error, which write_fmt
\* turns into an io::Error.
write_fmt(m) ==
    IF m.fails
    THEN [written |-> SubSeq(Text(m.count), 1, Len(Text(m.count)) \div 2),
          res |-> Err("formatter error")]
    ELSE [written |-> Text(m.count), res |-> Ok("unit")]

\* ------------------------------------------------------------- the request
MetricsPath == B_metrics                     \* the literal "/metrics" of call

Uris == {B_metrics, B_metrics_query, B_metrics_slash, B_Metrics_case, B_healthz}
Methods == {"GET", "POST"}
AcceptValues == {B_gzip, B_gzip_deflate, B_gzip_q0, B_identity, B_invalid_gzip}
\* http lower-cases header names; "accept" stands for any other header.
HeaderEntries == ({"accept-encoding"} \X AcceptValues) \cup {<<"accept", B_gzip>>}
HeaderLists == UNION {[1..n -> HeaderEntries] : n \in 0..MaxHeaders}
Requests == [uri : Uris, method : Methods, headers : HeaderLists]

\* req.uri().path(): the URI up to its query string; an empty path reads "/".
path(uri) ==
    LET marks == {i \in 1..Len(uri) : uri[i] = 63}
        end == IF marks = {} THEN Len(uri)
               ELSE (CHOOSE i \in marks : \A j \in marks : i <= j) - 1
        p == SubSeq(uri, 1, end)
    IN IF p = <<>> THEN B_slash ELSE p

\* req.headers().get_all(name): the values of the entries named `name`, in order.
get_all(headers, name) ==
    LET sel == SelectSeq(headers, LAMBDA h : h[1] = name)
    IN [i \in 1..Len(sel) |-> sel[i][2]]

\* A to_str that accepts every byte (from_utf8_lossy-like).
to_str_lossy(value) == Ok(value)

\* HeaderValue::to_str: Ok iff every byte is visible ASCII or a tab.
to_str(value) ==
    IF \A i \in 1..Len(value) : value[i] = 9 \/ (value[i] >= 32 /\ value[i] < 127)
    THEN Ok(value)
    ELSE Err("ToStrError")

\* str::contains
contains(hay, needle) ==
    \E i \in 1..(Len(hay) - Len(needle) + 1) :
        SubSeq(hay, i, i + Len(needle) - 1) = needle

\* The closure of is_gzip: value.to_str().ok().map(contains "gzip").unwrap_or(false)
gzip_value(value) ==
    LET s == to_str(value)
    IN IF s.ok THEN contains(s.val, B_gzip) ELSE FALSE

\* Iterator::any over the header values, left to right, stopping at a match.
RECURSIVE any_gzip(_)
any_gzip(values) ==
    IF values = <<>> THEN FALSE
    ELSE IF gzip_value(Head(values)) THEN TRUE
    ELSE any_gzip(Tail(values))

\* is_gzip written with get (the first occurrence) instead of get_all.
is_gzip_first(r) ==
    LET vs == get_all(r.headers, "accept-encoding")
    IN vs # <<>> /\ gzip_value(Head(vs))

\* Serve::is_gzip
is_gzip(r) == any_gzip(get_all(r.headers, "accept-encoding"))

\* -------------------------------------------------------- response builder
NOT_FOUND == 404
INTERNAL_SERVER_ERROR == 500
DEFAULT_STATUS == 200

\* Response::builder(): status 200, no headers, no error yet.
builder == [status |-> DEFAULT_STATUS, headers |-> <<>>, err |-> "none"]

\* Builder::status
with_status(b, code) ==
    IF b.err # "none" THEN b
    ELSE IF code >= 100 /\ code < 1000 THEN [b EXCEPT !.status = code]
    ELSE [b EXCEPT !.err = "invalid status code"]

\* Builder::header: a value with a byte outside the header-value alphabet
\* makes the builder fail.
with_header(b, name, value) ==
    IF b.err # "none" THEN b
    ELSE IF \A i \in 1..Len(value) :
                value[i] = 9 \/ (value[i] >= 32 /\ value[i] # 127)
    THEN [b EXCEPT !.headers = Append(@, <<name, value>>)]
    ELSE [b EXCEPT !.err = "failed to parse header value"]

\* Builder::body
with_body(b, bytes) ==
    IF b.err # "none" THEN Err(b.err)
    ELSE Ok([status |-> b.status, headers |-> b.headers, body |-> bytes])

\* Body::empty()
empty_body == <<>>

\* Result::expect: a panic unwinds out of call and no response exists; it is
\* written as a response of status 0.
expect(res) ==
    IF res.ok THEN res.val
    ELSE [status |-> 0, headers |-> <<>>, body |-> <<>>]

\* ------------------------------------------------------------ gzip encoder
\* Length of the run of equal bytes that starts s (s is not empty).
RunLen(s) ==
    CHOOSE k \in 1..Len(s) :
        /\ \A i \in 1..k : s[i] = s[1]
        /\ (k = Len(s) \/ s[k + 1] # s[1])

\* The compressed stream: a <<length, byte>> token per run, closed by a 0.
RECURSIVE Deflate(_)
Deflate(s) ==
    IF s = <<>> THEN <<0>>
    ELSE LET k == RunLen(s)
         IN <<k, s[1]>> \o Deflate(SubSeq(s, k + 1, Len(s)))

RECURSIVE ByteSum(_)
ByteSum(s) == IF s = <<>> THEN 0 ELSE Head(s) + ByteSum(Tail(s))

\* The 32-bit check value of the trailer (a byte sum; the texts of the model
\* keep it far below 2^32, so no reduction is written).
Crc(s) == ByteSum(s)

\* A 32-bit value as four little-endian bytes.
LE32(x) == <<x % 256, (x \div 256) % 256, (x \div 65536) % 256, (x \div 16777216) % 256>>

\* The member header: magic 1f 8b, method 8 (deflate), no flags, mtime 0.
GzHeader == <<31, 139, 8, 0, 0, 0, 0, 0, 0, 255>>

\* Vec::<u8>::new() held by the last response, kept instead of a fresh one.
StaleVec == IF calls > 0 /\ result.ok THEN result.rsp.body ELSE <<>>

\* Vec::<u8>::new()
NewVec == <<>>

\* GzEncoder::new(inner, options): nothing written, nothing pending.
GzEncoder_new(inner) == [inner |-> inner, input |-> <<>>]

\* Write::write_all on the encoder.
gz_write(enc, bytes) == [enc EXCEPT !.input = @ \o bytes]

\* finish() that leaves the trailer out.
gz_finish_no_trailer(enc) == Ok(enc.inner \o GzHeader \o Deflate(enc.input))

\* GzEncoder::finish: header, compressed stream, check value, length.
gz_finish(enc) ==
    Ok(enc.inner \o GzHeader \o Deflate(enc.input)
            \o LE32(Crc(enc.input)) \o LE32(Len(enc.input)))

\* --------------------------------------------------------------- ServeError
\* impl From<io::Error> / From<http::Error> for ServeError
from_io(e) == [kind |-> "Io", source |-> e]
from_http(e) == [kind |-> "Http", source |-> e]

\* impl Display for ServeError, as the fragments the formatter writes.
Display(e) ==
    IF e.kind = "Http" THEN <<"error constructing HTTP response">>
    ELSE <<"error writing metrics">>

\* trace!("gzipping metrics") and error!("{}", e)
trace_record == [level |-> "TRACE", msg |-> <<"gzipping metrics">>]
error_record(e) == [level |-> "ERROR", msg |-> Display(e)]

\* -------------------------------------------------------------------- call
\* future::ok(rsp) / a future resolving to Err(e)
future_ok(rsp) == [ready |-> TRUE, ok |-> TRUE, rsp |-> rsp]
future_err(e) == [ready |-> TRUE, ok |-> FALSE, err |-> e]

\* The path test that accepts every path starting with "/metrics".
prefix_match(p) ==
    Len(p) >= Len(MetricsPath) /\ SubSeq(p, 1, Len(MetricsPath)) = MetricsPath

\* req.uri().path() != "/metrics", negated
is_metrics_path(p) == p = MetricsPath

\* The 404 built without .status(StatusCode::NOT_FOUND).
not_found_default_status == expect(with_body(builder, empty_body))

\* The response of the first branch of call.
not_found == expect(with_body(with_status(builder, NOT_FOUND), empty_body))

\* The gzip branch after write!: finish the encoder and build the response.
gzip_response(enc, res) ==
    LET fin == IF res.ok THEN gz_finish(enc) ELSE res
    IN IF ~fin.ok THEN Err(from_io(fin.err))
       ELSE LET b == with_body(
                        with_header(
                            with_header(builder, "content-encoding", B_gzip),
                            "content-type", B_text_plain),
                        fin.val)
            IN IF b.ok THEN b ELSE Err(from_http(b.err))

\* The plain branch that drops the result of write!.
plain_response_unchecked(vec, res) ==
    with_body(with_header(builder, "content-type", B_text_plain), vec)

\* The plain branch after write!: build the response around the buffer.
plain_response(vec, res) ==
    IF ~res.ok THEN Err(from_io(res.err))
    ELSE LET b == with_body(with_header(builder, "content-type", B_text_plain), vec)
         IN IF b.ok THEN b ELSE Err(from_http(b.err))

\* The tail of call with `?` in place of unwrap_or_else.
finish_propagate(resp) ==
    IF resp.ok THEN [future |-> future_ok(resp.val), log |-> <<>>]
    ELSE [future |-> future_err(resp.err.source), log |-> <<>>]

\* The tail of call: unwrap_or_else logs the error and substitutes the 500,
\* then future::ok wraps the response.
finish(resp) ==
    IF resp.ok THEN [future |-> future_ok(resp.val), log |-> <<>>]
    ELSE [future |-> future_ok(expect(with_body(
                        with_status(builder, INTERNAL_SERVER_ERROR), empty_body))),
          log |-> <<error_record(resp.err)>>]

\* Serve::call on request r with the metrics source in state m: the future
\* it returns, the records it logs and the number of times it renders.
call(r, m) ==
    IF ~is_metrics_path(path(r.uri))
    THEN [future |-> future_ok(not_found), log |-> <<>>, renders |-> 0]
    ELSE LET gz == is_gzip(r)
             w == write_fmt(m)
             resp == IF gz
                     THEN gzip_response(gz_write(GzEncoder_new(NewVec), w.written), w.res)
                     ELSE plain_response(NewVec \o w.written, w.res)
             f == finish(resp)
         IN [future |-> f.future,
             log |-> (IF gz THEN <<trace_record>> ELSE <<>>) \o f.log,
             renders |-> 1]

\* Serve::poll_ready that reports Pending.
poll_pending == [ready |-> FALSE, ok |-> FALSE]

\* Serve::poll_ready: Poll::Ready(Ok(()))
poll_ready == [ready |-> TRUE, ok |-> TRUE]

\* ------------------------------------------------------- sequential service
NoFuture == [ready |-> FALSE, ok |-> FALSE]
NoRequest == [uri |-> <<>>, method |-> "", headers |-> <<>>]
Threads == 1..NumThreads
IdleThread ==
    [pc |-> "idle", poll |-> [ready |-> FALSE, ok |-> FALSE], req |-> NoRequest,
     gz |-> FALSE, vec |-> <<>>, enc |-> GzEncoder_new(<<>>), wres |-> Ok("unit"),
     snap |-> [count |-> 0, fails |-> FALSE], result |-> NoFuture, log |-> <<>>]

\* Serve::new(metrics), and a request drawn for the calls to come.
Init ==
    /\ metrics \in MetricsStates
    /\ req \in Requests
    /\ calls = 0
    /\ snap = metrics
    /\ result = NoFuture
    /\ log = <<>>
    /\ renders = 0
    /\ repeat = FALSE
    /\ threads = [t \in Threads |-> IdleThread]

\* The server hands req to Serve::call.
Call ==
    /\ calls < MaxCalls
    /\ LET c == call(req, metrics)
       IN /\ result' = c.future
          /\ log' = c.log
          /\ renders' = c.renders
    /\ calls' = calls + 1
    /\ snap' = metrics
    /\ repeat' = (calls > 0 /\ snap = metrics)
    /\ UNCHANGED <<metrics, req, threads>>

\* The proxy records an event: the counter the source renders moves on.
Update ==
    /\ metrics.count < MaxCount
    /\ metrics' = [metrics EXCEPT !.count = @ + 1]
    /\ UNCHANGED <<req, calls, snap, result, log, renders, repeat, threads>>

\* The source's Display impl starts or stops failing.
SetFault ==
    /\ metrics' = [metrics EXCEPT !.fails = ~@]
    /\ UNCHANGED <<req, calls, snap, result, log, renders, repeat, threads>>

Next == Call \/ Update \/ SetFault

Spec == Init /\ [][Next]_vars

\* ------------------------------------------------- concurrent calls
\* Requests the concurrent callers send: an unknown path, a plain scrape and
\* a scrape whose second Accept-Encoding occurrence asks for gzip.
ConcRequests ==
    {[uri |-> B_healthz, method |-> "GET", headers |-> <<<<"accept-encoding", B_gzip>>>>],
     [uri |-> B_metrics, method |-> "GET", headers |-> <<>>],
     [uri |-> B_metrics, method |-> "GET",
      headers |-> <<<<"accept-encoding", B_invalid_gzip>>,
                    <<"accept-encoding", B_gzip_deflate>>>>]}

\* One buffer used by every call instead of a local of each.
shared_vec(t) == threads[1].vec

\* `writer` in the plain branch: a local of the call running on thread t.
local_vec(t) == threads[t].vec

\* Every clone of the service over the same metrics source, nothing in flight.
InitConc ==
    /\ metrics \in MetricsStates
    /\ req = NoRequest
    /\ calls = 0
    /\ snap = metrics
    /\ result = NoFuture
    /\ log = <<>>
    /\ renders = 0
    /\ repeat = FALSE
    /\ threads = [t \in Threads |-> IdleThread]

seq_vars == <<req, calls, snap, result, log, renders, repeat>>

\* Thread t asks its clone whether it is ready.
PollReady(t) ==
    /\ threads[t].pc = "idle"
    /\ threads' = [threads EXCEPT ![t].pc = "ready", ![t].poll = poll_ready]
    /\ UNCHANGED <<metrics, seq_vars>>

\* call up to write!: the path test, is_gzip and the fresh writer.
CallBegin(t, r) ==
    /\ threads[t].pc = "ready"
    /\ IF ~is_metrics_path(path(r.uri))
       THEN threads' = [threads EXCEPT ![t].pc = "done", ![t].req = r,
                                       ![t].result = future_ok(not_found)]
       ELSE threads' = [threads EXCEPT
                            ![t].pc = "write", ![t].req = r,
                            ![t].gz = is_gzip(r),
                            ![t].log = IF is_gzip(r) THEN <<trace_record>> ELSE <<>>,
                            ![t].vec = NewVec,
                            ![t].enc = GzEncoder_new(NewVec)]
    /\ UNCHANGED <<metrics, seq_vars>>

\* write!(&mut writer, "{}", self.metrics.as_display()): the one read of the
\* shared metrics source.
CallWrite(t) ==
    /\ threads[t].pc = "write"
    /\ LET w == write_fmt(metrics)
       IN threads' = [threads EXCEPT
                          ![t].pc = "respond",
                          ![t].snap = metrics,
                          ![t].wres = w.res,
                          ![t].vec = IF threads[t].gz THEN @ ELSE local_vec(t) \o w.written,
                          ![t].enc = IF threads[t].gz THEN gz_write(@, w.written) ELSE @]
    /\ UNCHANGED <<metrics, seq_vars>>

\* call after write!: build the response or its 500 substitute and return.
CallRespond(t) ==
    /\ threads[t].pc = "respond"
    /\ LET resp == IF threads[t].gz
                   THEN gzip_response(threads[t].enc, threads[t].wres)
                   ELSE plain_response(threads[t].vec, threads[t].wres)
           f == finish(resp)
       IN threads' = [threads EXCEPT ![t].pc = "done",
                                     ![t].result = f.future,
                                     ![t].log = @ \o f.log]
    /\ UNCHANGED <<metrics, seq_vars>>

\* The server takes the response; the thread is free for the next request.
Take(t) ==
    /\ threads[t].pc = "done"
    /\ threads' = [threads EXCEPT ![t] = IdleThread]
    /\ UNCHANGED <<metrics, seq_vars>>

\* The metrics source changes while calls are in flight.
UpdateConc ==
    /\ metrics.count < MaxCount
    /\ metrics' = [metrics EXCEPT !.count = @ + 1]
    /\ UNCHANGED <<seq_vars, threads>>

SetFaultConc ==
    /\ metrics' = [metrics EXCEPT !.fails = ~@]
    /\ UNCHANGED <<seq_vars, threads>>

NextConc ==
    \/ \E t \in Threads : PollReady(t)
    \/ \E t \in Threads : \E r \in ConcRequests : CallBegin(t, r)
    \/ \E t \in Threads : CallWrite(t)
    \/ \E t \in Threads : CallRespond(t)
    \/ \E t \in Threads : Take(t)
    \/ UpdateConc
    \/ SetFaultConc

SpecConc == InitConc /\ [][NextConc]_vars

\* ------------------------------------------------ vocabulary of the claims
\* v is text: every byte is a tab or a printable ASCII character.
IsText(v) == \A i \in DOMAIN v : v[i] = 9 \/ v[i] \in 32..126

\* The bytes of w occur in v, in order and next to each other.
Mentions(v, w) ==
    \E i \in 0..(Len(v) - Len(w)) : \A j \in 1..Len(w) : v[i + j] = w[j]

\* The values of the Accept-Encoding occurrences of r.
AcceptEncodings(r) ==
    {r.headers[i][2] : i \in {k \in DOMAIN r.headers : r.headers[k][1] = "accept-encoding"}}

\* Some Accept-Encoding occurrence of r is text that contains "gzip".
WantsGzip(r) == \E v \in AcceptEncodings(r) : IsText(v) /\ Mentions(v, B_gzip)

\* The values the response carries under header `name`.
HeaderValues(rsp, name) ==
    {rsp.headers[i][2] : i \in {k \in DOMAIN rsp.headers : rsp.headers[k][1] = name}}

\* The decoder of the compressed stream.
RECURSIVE Inflate(_)
Inflate(s) ==
    IF s = <<0>> THEN Ok(<<>>)
    ELSE IF Len(s) < 3 \/ s[1] < 1 THEN Err("corrupt deflate stream")
    ELSE LET rest == Inflate(SubSeq(s, 3, Len(s)))
         IN IF rest.ok THEN Ok([i \in 1..s[1] |-> s[2]] \o rest.val) ELSE rest

\* The decoder of a gzip member: header, stream, check value and length
\* must all agree.
Gunzip(b) ==
    IF Len(b) < Len(GzHeader) + 9 \/ SubSeq(b, 1, Len(GzHeader)) # GzHeader
    THEN Err("invalid gzip header")
    ELSE LET inf == Inflate(SubSeq(b, Len(GzHeader) + 1, Len(b) - 8))
         IN IF ~inf.ok THEN inf
            ELSE IF SubSeq(b, Len(b) - 7, Len(b) - 4) # LE32(Crc(inf.val))
                    \/ SubSeq(b, Len(b) - 3, Len(b)) # LE32(Len(inf.val))
            THEN Err("corrupt gzip stream")
            ELSE inf

Called == calls > 0
OnMetricsPath == path(req.uri) = MetricsPath
Responded(status) == result.ready /\ result.ok /\ result.rsp.status = status

\* ------------------------------------------------------------------ claims
\* C1: a request to the metrics path none of whose Accept-Encoding values is
\* text containing "gzip", with a source that renders, gets 200 with
\* Content-Type: text/plain, no Content-Encoding, and the rendered text as body.
C1_PlainResponse ==
    (Called /\ OnMetricsPath /\ ~WantsGzip(req) /\ ~snap.fails) =>
        /\ Responded(200)
        /\ HeaderValues(result.rsp, "content-type") = {B_text_plain}
        /\ HeaderValues(result.rsp, "content-encoding") = {}
        /\ result.rsp.body = Text(snap.count)

C1_Witness ==
    /\ Called /\ OnMetricsPath /\ ~snap.fails
    /\ req.headers = <<<<"accept-encoding", B_identity>>>>
    /\ Responded(200)
    /\ result.rsp.body = Text(snap.count)

\* C2: a request to the metrics path with an Accept-Encoding value that is
\* text containing "gzip", with a source that renders, gets 200 with
\* Content-Encoding: gzip and Content-Type: text/plain, and the body
\* decompresses to the rendered text.
C2_GzipResponse ==
    (Called /\ OnMetricsPath /\ WantsGzip(req) /\ ~snap.fails) =>
        /\ Responded(200)
        /\ HeaderValues(result.rsp, "content-encoding") = {B_gzip}
        /\ HeaderValues(result.rsp, "content-type") = {B_text_plain}
        /\ Gunzip(result.rsp.body) = Ok(Text(snap.count))

C2_Witness ==
    /\ Called /\ OnMetricsPath /\ ~snap.fails
    /\ req.headers = <<<<"accept-encoding", B_identity>>, <<"accept-encoding", B_gzip_q0>>>>
    /\ Responded(200)
    /\ result.rsp.body # Text(snap.count)
    /\ Gunzip(result.rsp.body) = Ok(Text(snap.count))

\* C3: a request whose path is not the metrics path gets 404 with an empty
\* body, whatever its headers and method, and the source is not rendered.
C3_NotFound ==
    (Called /\ ~OnMetricsPath) =>
        /\ Responded(404)
        /\ result.rsp.body = <<>>
        /\ renders = 0

C3_Witness ==
    /\ Called /\ req.uri = B_healthz /\ req.method = "POST"
    /\ req.headers = <<<<"accept-encoding", B_gzip>>>>
    /\ Responded(404) /\ result.rsp.body = <<>> /\ renders = 0

\* C4: on the metrics path, a render that fails gives 500 with an empty body
\* and no headers, in the gzip branch and in the plain branch.
C4_InternalError ==
    (Called /\ OnMetricsPath /\ snap.fails) =>
        /\ Responded(500)
        /\ result.rsp.body = <<>>
        /\ result.rsp.headers = <<>>

C4_Witness ==
    /\ Called /\ OnMetricsPath /\ snap.fails /\ WantsGzip(req)
    /\ Responded(500) /\ result.rsp.body = <<>>

\* C5: every call returns a future that is ready with Ok and a response of
\* status 200, 404 or 500; no error reaches the caller.
C5_Total ==
    Called =>
        /\ result.ready
        /\ result.ok
        /\ result.rsp.status \in {200, 404, 500}

C5_Witness ==
    Called /\ OnMetricsPath /\ snap.fails /\ result.ready /\ result.ok

\* C6 as stated: the metrics path followed by a query string, with a trailing
\* slash or in another case gets 404 with an empty body.
C6_Original ==
    (Called /\ req.uri \in {B_metrics_query, B_metrics_slash, B_Metrics_case}) =>
        Responded(404) /\ result.rsp.body = <<>>

\* C6 amended: the comparison is exact on the path component of the URI. A
\* trailing slash or another case gets 404 with an empty body; a query string
\* is not part of the path, and "/metrics?x=1" is answered as "/metrics" is.
C6_ExactPath ==
    Called =>
        /\ req.uri \in {B_metrics_slash, B_Metrics_case} =>
                Responded(404) /\ result.rsp.body = <<>>
        /\ req.uri = B_metrics_query =>
                /\ ~Responded(404)
                /\ result = call([req EXCEPT !.uri = B_metrics], snap).future

C6_Witness ==
    Called /\ req.uri = B_metrics_slash /\ Responded(404) /\ result.rsp.body = <<>>

C8_AnyOccurrence ==
    (Called /\ OnMetricsPath /\ ~snap.fails) =>
        /\ Responded(200)
        /\ (B_gzip \in HeaderValues(result.rsp, "content-encoding")) <=> WantsGzip(req)

C8_Witness ==
    /\ Called /\ OnMetricsPath /\ ~snap.fails
    /\ req.headers = <<<<"accept-encoding", B_invalid_gzip>>, <<"accept-encoding", B_gzip>>>>
    /\ Responded(200)
    /\ HeaderValues(result.rsp, "content-encoding") = {B_gzip}

\* The cause the failed render of the last call carried.
Cause == write_fmt(snap).res.err

ErrorRecords == {i \in DOMAIN log : log[i].level = "ERROR"}

\* C10 as stated: a 500 comes with exactly one error record, and the record
\* includes the underlying cause; 200 and 404 come with no error record.
C10_LogsCause ==
    Called =>
        IF Responded(500)
        THEN /\ Cardinality(ErrorRecords) = 1
             /\ \A i \in ErrorRecords : \E k \in DOMAIN log[i].msg : log[i].msg[k] = Cause
        ELSE ErrorRecords = {}

\* C9: with calls interleaved on clones of the service, poll_ready has
\* reported Ready(Ok) to every thread that went on, a step of one call leaves
\* the metrics source and every other call untouched, and a finished call
\* holds the response its request gets alone on the snapshot the call read.
C9_Reentrant ==
    /\ [](\A t \in Threads :
            /\ threads[t].pc # "idle" => threads[t].poll.ready /\ threads[t].poll.ok
            /\ threads[t].pc = "done" =>
                    threads[t].result = call(threads[t].req, threads[t].snap).future)
    /\ [][\A t \in Threads :
            threads'[t] # threads[t] =>
                /\ metrics' = metrics
                /\ \A u \in Threads \ {t} : threads'[u] = threads[u]]_vars

C9_Witness ==
    /\ threads[1].pc = "done" /\ threads[2].pc = "done"
    /\ threads[1].snap # threads[2].snap
    /\ threads[1].result.rsp.status = 200
    /\ threads[2].result.rsp.status = 500
    /\ threads[1].req.headers = <<>>

====
